---- MODULE Spec2Model ----
(***************************************************************************)
(* Invoice / purchase-order reconciliation of src/app.py.                  *)
(*                                                                         *)
(* Strings are sequences of one-character strings.  Python floats are      *)
(* fixed-point integers counting ten-thousandths (Unit per 1.0); the input *)
(* pools keep clear of the exact tolerance boundaries, where binary        *)
(* floating point and decimal arithmetic may disagree.                     *)
(***************************************************************************)
EXTENDS Integers, Sequences, FiniteSets, TLC

\* Longest raw item list drawn from the item pools.
MaxItems == 2

\* One float unit: 1.0 is Unit ten-thousandths.
Unit == 10000
\* 0.001, the quantity tolerance, in ten-thousandths.
QtyTol == 10
\* 0.01, the total tolerance, in ten-thousandths.
TotalTol == 100

(***************************************************************************)
(* JSON values as the extractor returns them.                              *)
(***************************************************************************)
Missing == [t |-> "missing", n |-> 0, s |-> <<>>]
Null == [t |-> "null", n |-> 0, s |-> <<>>]
Num(n) == [t |-> "num", n |-> n, s |-> <<>>]
Str(s) == [t |-> "str", n |-> 0, s |-> s]

\* dict.get(key, default): the default only when the key is missing.
Get(v, default) == IF v.t = "missing" THEN default ELSE v

\* dict.get(key): None when the key is missing.
GetOrNone(v) == Get(v, Null)

\* Python truth value of a JSON value.
Truthy(v) ==
    CASE v.t = "num" -> v.n # 0
      [] v.t = "str" -> v.s # <<>>
      [] OTHER -> FALSE

(***************************************************************************)
(* str methods.                                                            *)
(***************************************************************************)
Whitespace == {" ", "\t", "\n", "\r"}
UpperCase == <<"A","B","C","D","E","F","G","H","I","J","K","L","M",
               "N","O","P","Q","R","S","T","U","V","W","X","Y","Z">>
LowerCase == <<"a","b","c","d","e","f","g","h","i","j","k","l","m",
               "n","o","p","q","r","s","t","u","v","w","x","y","z">>

RECURSIVE LStrip(_)
LStrip(s) ==
    IF s # <<>> /\ Head(s) \in Whitespace THEN LStrip(Tail(s)) ELSE s

RECURSIVE RStrip(_)
RStrip(s) ==
    IF s # <<>> /\ s[Len(s)] \in Whitespace
    THEN RStrip(SubSeq(s, 1, Len(s) - 1))
    ELSE s

\* str.strip()
Strip(s) == RStrip(LStrip(s))

LowerChar(c) ==
    IF \E i \in 1..26 : UpperCase[i] = c
    THEN LowerCase[CHOOSE i \in 1..26 : UpperCase[i] = c]
    ELSE c

\* str.lower()
Lower(s) == [i \in 1..Len(s) |-> LowerChar(s[i])]

\* str.replace(a, b) for one-character a; b is a string, possibly empty.
RECURSIVE Replace(_, _, _)
Replace(s, a, b) ==
    IF s = <<>> THEN <<>>
    ELSE (IF Head(s) = a THEN b ELSE <<Head(s)>>) \o Replace(Tail(s), a, b)

\* str.startswith(prefix)
StartsWith(s, prefix) ==
    Len(s) >= Len(prefix) /\ SubSeq(s, 1, Len(prefix)) = prefix

\* a in b, for strings
IsSubstring(a, b) ==
    \E i \in 0..(Len(b) - Len(a)) : SubSeq(b, i + 1, i + Len(a)) = a

(***************************************************************************)
(* float() and str() of numbers.                                           *)
(***************************************************************************)
Digits == <<"0","1","2","3","4","5","6","7","8","9">>
IsDigit(c) == \E i \in 1..10 : Digits[i] = c
DigitVal(c) == (CHOOSE i \in 1..10 : Digits[i] = c) - 1

RECURSIVE DigitsVal(_)
DigitsVal(s) ==
    IF s = <<>> THEN 0
    ELSE 10 * DigitsVal(SubSeq(s, 1, Len(s) - 1)) + DigitVal(s[Len(s)])

\* The fraction digits as ten-thousandths: "5" is 5000, "0005" is 5.
FracVal(s) ==
    DigitsVal(SubSeq(s \o <<"0","0","0","0">>, 1, 4))

Ok(n) == [ok |-> TRUE, n |-> n]
ValueError == [ok |-> FALSE, n |-> 0]

\* The value of a decimal numeral t whose period is at position p (one
\* past the end when it has none).
DecimalValue(t, p) ==
    Unit * DigitsVal(SubSeq(t, 1, p - 1)) + FracVal(SubSeq(t, p + 1, Len(t)))

\* The position of the first period of t, one past the end when none.
DotIndex(t) ==
    IF \E i \in 1..Len(t) : t[i] = "."
    THEN CHOOSE i \in 1..Len(t) : t[i] = "." /\ \A j \in 1..(i - 1) : t[j] # "."
    ELSE Len(t) + 1

\* Digits with at most one period and at least one digit.
IsDecimal(t, p) ==
    /\ \E i \in 1..Len(t) : IsDigit(t[i])
    /\ \A i \in 1..Len(t) : i # p => IsDigit(t[i])

ParseStripped(t) ==
    IF IsDecimal(t, DotIndex(t)) THEN Ok(DecimalValue(t, DotIndex(t))) ELSE ValueError

\* float(str): surrounding whitespace ignored, then a decimal numeral;
\* anything else raises ValueError.
ParseFloat(s) == ParseStripped(Strip(s))

RECURSIVE NatToStr(_)
NatToStr(n) ==
    IF n < 10 THEN <<Digits[n + 1]>>
    ELSE NatToStr(n \div 10) \o <<Digits[(n % 10) + 1]>>

RECURSIVE TrimZeros(_)
TrimZeros(s) ==
    IF Len(s) > 1 /\ s[Len(s)] = "0"
    THEN TrimZeros(SubSeq(s, 1, Len(s) - 1))
    ELSE s

\* The four fraction digits of a count of ten-thousandths.
Pad4(s) == SubSeq(<<"0","0","0">>, 1, 4 - Len(s)) \o s

\* str(float): shortest decimal that reads back, always with a fraction.
FloatToStr(n) ==
    NatToStr(n \div Unit) \o <<".">> \o TrimZeros(Pad4(NatToStr(n % Unit)))

\* str(value)
PyStr(v) ==
    CASE v.t = "str" -> v.s
      [] v.t = "num" -> FloatToStr(v.n)
      [] OTHER -> <<"N","o","n","e">>

\* float(value): numbers as is, strings parsed, None raises TypeError.
PyFloat(v) ==
    CASE v.t = "num" -> Ok(v.n)
      [] v.t = "str" -> ParseFloat(v.s)
      [] OTHER -> ValueError

\* float(str(value).replace(',', '.'))
FloatOfStr(v) == ParseFloat(Replace(PyStr(v), ",", <<".">>))

(***************************************************************************)
(* Item aggregation: get_normalized_dict.  The defaultdict is a sequence   *)
(* of entries in insertion order; reading a key that is absent inserts the *)
(* default entry.                                                          *)
(***************************************************************************)
CulturePrefix == <<"c","u","l","t","u","r","e"," ">>

DefaultEntry(k) == [key |-> k, quantity |-> 0, description |-> <<>>, price |-> 0]

HasKey(d, k) == \E i \in 1..Len(d) : d[i].key = k

Keys(d) == {d[i].key : i \in 1..Len(d)}

\* normalized[k] on a defaultdict: the map after the read.
Touch(d, k) == IF HasKey(d, k) THEN d ELSE Append(d, DefaultEntry(k))

\* The entry of a key the map has.
Lookup(d, k) == d[CHOOSE i \in 1..Len(d) : d[i].key = k]

\* normalized[k]: the entry read (of the map after the read).
Entry(d, k) == Lookup(Touch(d, k), k)

\* The "culture " prefix cut off once, the rest left as it is.
CutPrefix(desc_key) ==
    IF StartsWith(desc_key, CulturePrefix)
    THEN SubSeq(desc_key, Len(CulturePrefix) + 1, Len(desc_key))
    ELSE desc_key

\* The grouping key of a description.
DescKey(description) == CutPrefix(Lower(Strip(description)))

\* The except clause: either conversion failing resets both values.
QtyPrice(q, p) ==
    IF q.ok /\ p.ok
    THEN [quantity |-> q.n, price |-> p.n]
    ELSE [quantity |-> 0, price |-> 0]

\* The try block: quantity and price are converted together.
ParsedQtyPrice(item) ==
    QtyPrice(PyFloat(Get(item.quantity, Num(0))), FloatOfStr(Get(item.price, Num(0))))

\* The three updates of the entry of an item.
UpdatedEntry(e, description, qp) ==
    [e EXCEPT !.description = IF @ = <<>> THEN description ELSE @,
              !.quantity = @ + qp.quantity,
              !.price = IF qp.price > 0 THEN qp.price ELSE @]

\* d1 is the map after the first read of normalized[desc_key].
UpdateMap(d1, desc_key, description, qp) ==
    [i \in 1..Len(d1) |->
        IF d1[i].key = desc_key THEN UpdatedEntry(d1[i], description, qp) ELSE d1[i]]

AggregateKeyed(d, desc_key, item) ==
    UpdateMap(Touch(d, desc_key), desc_key, item.description.s, ParsedQtyPrice(item))

\* One iteration of the aggregation loop.
AggregateStep(d, item) ==
    IF ~Truthy(GetOrNone(item.description)) THEN d
    ELSE AggregateKeyed(d, DescKey(item.description.s), item)

RECURSIVE AggregateLoop(_, _)
AggregateLoop(d, items) ==
    IF items = <<>> THEN d
    ELSE AggregateLoop(AggregateStep(d, Head(items)), Tail(items))

\* items is the value of the "items" field: a list, or anything else.
get_normalized_dict(items) ==
    IF items.t # "list" THEN <<>> ELSE AggregateLoop(<<>>, items.l)

List(l) == [t |-> "list", l |-> l]

\* The keys at the given insertion positions.
KeysAt(d, positions) == [i \in 1..Len(positions) |-> d[positions[i]].key]

\* for key in set(d.keys()): the keys in the order the process's string
\* hashing gives, a permutation of the insertion positions.
IterKeys(d, order) == KeysAt(d, SelectSeq(order, LAMBDA i : i <= Len(d)))

(***************************************************************************)
(* generate_match_summary: the checklist.  A line is a record of the       *)
(* message kind and the values formatted into it.                          *)
(***************************************************************************)
Line(kind, desc, sx, sy, nx, ny) ==
    [kind |-> kind, desc |-> desc, sx |-> sx, sy |-> sy, nx |-> nx, ny |-> ny]

NA == <<"N","/","A">>

Abs(x) == IF x < 0 THEN -x ELSE x

\* str(raw).strip() if raw is not None else "N/A"
PoNoText(raw) == IF raw.t # "null" THEN Strip(PyStr(raw)) ELSE NA

\* PoNumberMatches without the "N/A" exclusion.
PoNumberMatches_NoNA(inv_po_no, po_po_no) ==
    inv_po_no = po_po_no

PoNumberMatches(inv_po_no, po_po_no) ==
    inv_po_no = po_po_no /\ inv_po_no # NA

PoNumberFinding(inv_po_no, po_po_no) ==
    IF PoNumberMatches(inv_po_no, po_po_no)
    THEN [line |-> Line("PO Number matches", <<>>, po_po_no, <<>>, 0, 0),
          issues |-> <<>>]
    ELSE [line |-> Line("PO Number mismatch", <<>>, inv_po_no, po_po_no, 0, 0),
          issues |-> <<"PO number mismatch">>]

PoNumberCheck(invoice_data, po_data) ==
    PoNumberFinding(PoNoText(GetOrNone(invoice_data.po_no)),
                    PoNoText(GetOrNone(po_data.po_no)))

\* str(raw).strip().lower().replace(' ', '') if raw else ""
VendorText(raw) ==
    IF Truthy(raw) THEN Replace(Lower(Strip(PyStr(raw))), " ", <<>>) ELSE <<>>

\* VendorMatches looking for the invoice vendor in the PO vendor only.
VendorMatches_OneWay(inv_vendor, po_vendor) ==
    /\ inv_vendor # <<>>
    /\ po_vendor # <<>>
    /\ IsSubstring(inv_vendor, po_vendor)

VendorMatches(inv_vendor, po_vendor) ==
    /\ inv_vendor # <<>>
    /\ po_vendor # <<>>
    /\ (IsSubstring(inv_vendor, po_vendor) \/ IsSubstring(po_vendor, inv_vendor))

\* raw or 'N/A', as the mismatch line shows it
OrNA(raw) == IF Truthy(raw) THEN PyStr(raw) ELSE NA

VendorFinding(inv_vendor_raw, po_vendor_raw) ==
    IF VendorMatches(VendorText(inv_vendor_raw), VendorText(po_vendor_raw))
    THEN [line |-> Line("Vendor matches", <<>>, PyStr(inv_vendor_raw), <<>>, 0, 0),
          issues |-> <<>>]
    ELSE [line |-> Line("Vendor mismatch", <<>>,
                        OrNA(inv_vendor_raw), OrNA(po_vendor_raw), 0, 0),
          issues |-> <<"Vendor mismatch">>]

VendorCheck(invoice_data, po_data) ==
    VendorFinding(GetOrNone(invoice_data.vendor), GetOrNone(po_data.vendor))

\* float(str(data.get("total", 0.0)).replace(',', '.')), outside any try
TotalOf(data) == FloatOfStr(Get(data.total, Num(0)))

TotalMatches(invoice_total, po_total) ==
    Abs(invoice_total - po_total) < TotalTol

\* TotalCheck reporting the mismatch line without recording the issue.
TotalCheck_NoIssue(invoice_total, po_total) ==
    IF TotalMatches(invoice_total, po_total)
    THEN [line |-> Line("Total amount matches", <<>>, <<>>, <<>>, invoice_total, 0),
          issues |-> <<>>]
    ELSE [line |-> Line("Total amount mismatch", <<>>, <<>>, <<>>,
                        invoice_total, po_total),
          issues |-> <<>>]

TotalCheck(invoice_total, po_total) ==
    IF TotalMatches(invoice_total, po_total)
    THEN [line |-> Line("Total amount matches", <<>>, <<>>, <<>>, invoice_total, 0),
          issues |-> <<>>]
    ELSE [line |-> Line("Total amount mismatch", <<>>, <<>>, <<>>,
                        invoice_total, po_total),
          issues |-> <<"Total amount mismatch">>]

\* QuantityVerdict comparing without the tolerance.
QuantityVerdict_NoTolerance(inv_quantity, po_quantity) ==
    IF inv_quantity > po_quantity THEN "exceeds"
    ELSE IF inv_quantity < po_quantity THEN "partial"
    ELSE "matches"

\* The if / elif / else on the two aggregated quantities.
QuantityVerdict(inv_quantity, po_quantity) ==
    IF inv_quantity > po_quantity + QtyTol THEN "exceeds"
    ELSE IF inv_quantity < po_quantity - QtyTol THEN "partial"
    ELSE "matches"

\* acc carries lines, issues and the two maps; inv1 and po1 are the maps
\* after the subscript reads.
QuantityFinding(acc, inv1, po1, inv_item, po_item, verdict) ==
    CASE verdict = "exceeds" ->
            [lines |-> Append(acc.lines,
                Line("Quantity mismatch exceeds", inv_item.description, <<>>, <<>>,
                     inv_item.quantity, po_item.quantity)),
             issues |-> Append(acc.issues, "Item quantity exceeds PO"),
             inv |-> inv1, po |-> po1]
      [] verdict = "partial" ->
            [lines |-> Append(acc.lines,
                Line("Quantity partial shipment", inv_item.description, <<>>, <<>>,
                     inv_item.quantity, po_item.quantity)),
             issues |-> acc.issues,
             inv |-> inv1, po |-> po1]
      [] OTHER ->
            [lines |-> Append(acc.lines,
                Line("Quantity matches", inv_item.description, <<>>, <<>>, 0, 0)),
             issues |-> acc.issues,
             inv |-> inv1, po |-> po1]

\* The branch of a key the PO has.
FoundItem(acc, inv1, po1, inv_item, po_item) ==
    QuantityFinding(acc, inv1, po1, inv_item, po_item,
                    QuantityVerdict(inv_item.quantity, po_item.quantity))

\* The branch of a key the PO lacks.
UnmatchedItem(acc, inv1, inv_item) ==
    [lines |-> Append(acc.lines,
        Line("Item not found on the PO", inv_item.description, <<>>, <<>>, 0, 0)),
     issues |-> Append(acc.issues, "Unmatched invoice item"),
     inv |-> inv1, po |-> acc.po]

\* The body of the loop over all_inv_keys.
ItemStep(acc, inv_key, all_po_keys) ==
    IF inv_key \in all_po_keys
    THEN FoundItem(acc, Touch(acc.inv, inv_key), Touch(acc.po, inv_key),
                   Entry(acc.inv, inv_key), Entry(acc.po, inv_key))
    ELSE UnmatchedItem(acc, Touch(acc.inv, inv_key), Entry(acc.inv, inv_key))

RECURSIVE ItemLoop(_, _, _)
ItemLoop(acc, keys, all_po_keys) ==
    IF keys = <<>> THEN acc
    ELSE ItemLoop(ItemStep(acc, Head(keys), all_po_keys), Tail(keys), all_po_keys)

StatusLine(issues) ==
    IF issues = <<>>
    THEN Line("Status: APPROVED", <<>>, <<>>, <<>>, 0, 0)
    ELSE Line("Status: NEEDS REVIEW", <<>>, <<>>, <<>>, 0, 0)

NotRun == [outcome |-> "none", lines |-> <<>>, inv |-> <<>>, po |-> <<>>]
Raised == [outcome |-> "ValueError", lines |-> <<>>, inv |-> <<>>, po |-> <<>>]

\* The status line and the return.
Checklist(acc) ==
    [outcome |-> "ok",
     lines |-> Append(acc.lines, StatusLine(acc.issues)),
     inv |-> acc.inv, po |-> acc.po]

\* From the aggregation to the return; c1, c2, c3 are the field findings.
ItemSection(c1, c2, c3, normalized_invoice_items, normalized_po_items, order) ==
    Checklist(ItemLoop([lines |-> <<c1.line, c2.line, c3.line,
                                    Line("---", <<>>, <<>>, <<>>, 0, 0)>>,
                        issues |-> c1.issues \o c2.issues \o c3.issues,
                        inv |-> normalized_invoice_items,
                        po |-> normalized_po_items],
                       IterKeys(normalized_invoice_items, order),
                       Keys(normalized_po_items)))

\* From the total check on; a total that did not convert has raised.
TotalSection(invoice_data, po_data, order, c1, c2, invoice_total, po_total) ==
    IF ~(invoice_total.ok /\ po_total.ok) THEN Raised
    ELSE ItemSection(c1, c2, TotalCheck(invoice_total.n, po_total.n),
                     get_normalized_dict(Get(invoice_data.items, List(<<>>))),
                     get_normalized_dict(Get(po_data.items, List(<<>>))),
                     order)

\* order is the iteration order of set(normalized_invoice_items.keys()).
generate_match_summary(invoice_data, po_data, order) ==
    TotalSection(invoice_data, po_data, order,
                 PoNumberCheck(invoice_data, po_data),
                 VendorCheck(invoice_data, po_data),
                 TotalOf(invoice_data), TotalOf(po_data))

(***************************************************************************)
(* generate_agent_summary: the narrative.                                  *)
(***************************************************************************)
AgentFoundItem(details, inv_item, po_item) ==
    IF inv_item.quantity > po_item.quantity + QtyTol
    THEN Append(details, Line("exceeds", inv_item.description, <<>>, <<>>,
                              inv_item.quantity, po_item.quantity))
    ELSE IF inv_item.quantity < po_item.quantity - QtyTol
    THEN Append(details, Line("partial shipment", inv_item.description, <<>>, <<>>,
                              inv_item.quantity, po_item.quantity))
    ELSE details

AgentUnmatchedItem(details, inv_item) ==
    Append(details, Line("not found on the purchase order", inv_item.description,
                         <<>>, <<>>, 0, 0))

AgentItemStep(details, inv_key, inv, po, all_po_keys) ==
    IF inv_key \notin all_po_keys
    THEN AgentUnmatchedItem(details, Entry(inv, inv_key))
    ELSE AgentFoundItem(details, Entry(inv, inv_key), Entry(po, inv_key))

RECURSIVE AgentItemLoop(_, _, _, _, _)
AgentItemLoop(details, keys, inv, po, all_po_keys) ==
    IF keys = <<>> THEN details
    ELSE AgentItemLoop(AgentItemStep(details, Head(keys), inv, po, all_po_keys),
                       Tail(keys), inv, po, all_po_keys)

AgentNotRun == [outcome |-> "none", approved |-> FALSE, details |-> <<>>]
AgentRaised == [outcome |-> "ValueError", approved |-> FALSE, details |-> <<>>]

\* Check 1 of the narrative.
AgentTotalCheck(invoice_total, po_total) ==
    IF Abs(invoice_total - po_total) >= TotalTol
    THEN <<Line("Total Amount", <<>>, <<>>, <<>>, invoice_total, po_total)>>
    ELSE <<>>

\* The approval paragraph when nothing was listed, the list otherwise.
AgentSummary(discrepancy_details) ==
    [outcome |-> "ok",
     approved |-> (discrepancy_details = <<>>),
     details |-> discrepancy_details]

\* Check 2 of the narrative and the return.
AgentItemSection(d0, normalized_invoice_items, normalized_po_items, order) ==
    AgentSummary(AgentItemLoop(d0, IterKeys(normalized_invoice_items, order),
                               normalized_invoice_items, normalized_po_items,
                               Keys(normalized_po_items)))

AgentTotalSection(invoice_data, po_data, order, invoice_total, po_total) ==
    IF ~(invoice_total.ok /\ po_total.ok) THEN AgentRaised
    ELSE AgentItemSection(AgentTotalCheck(invoice_total.n, po_total.n),
                          get_normalized_dict(Get(invoice_data.items, List(<<>>))),
                          get_normalized_dict(Get(po_data.items, List(<<>>))),
                          order)

generate_agent_summary(invoice_data, po_data, order) ==
    AgentTotalSection(invoice_data, po_data, order,
                      TotalOf(invoice_data), TotalOf(po_data))

(***************************************************************************)
(* The documents: what the extractor returns for the uploaded files.       *)
(***************************************************************************)
Doc(po_no, vendor, total, items) ==
    [po_no |-> po_no, vendor |-> vendor, total |-> total, items |-> items]

Item(description, quantity, price) ==
    [description |-> description, quantity |-> quantity, price |-> price]

PoNoPool ==
    { Missing, Str(NA), Str(<<"A","1">>), Str(<<" ","A","1"," ">>), Str(<<"B","2">>) }
PoSidePoNoPool == { Missing, Str(NA), Str(<<"A","1">>) }

VendorPool ==
    { Missing, Str(<<" ">>), Str(<<"A"," ","b">>), Str(<<"a","b","c">>), Str(<<"d">>) }
PoSideVendorPool == { Missing, Str(<<"A"," ","b">>), Str(<<"a","b","c">>) }

TotalPool ==
    { Missing, Null, Num(100 * Unit),
      Str(<<"1","0","0",",","0","0","5">>),
      Str(<<" ","1","0","0",".","0","2">>),
      Str(<<"a","b","c">>), Str(<<>>) }
PoSideTotalPool ==
    { Missing, Num(100 * Unit), Str(<<"1","0","0",",","0","0","5">>), Str(<<"a","b","c">>) }

InvoiceItemPool ==
    { Item(Str(<<"c","u","l","t","u","r","e"," ","x">>),
           Str(<<"5">>), Str(<<"3","0",",","5">>)),
      Item(Str(<<" ","X">>), Num(10 * Unit + 5), Num(0)),
      Item(Str(<<"y">>), Num(5 * Unit), Null) }

\* Lists with an item without a description, and with a description that
\* has two spaces after the prefix.
SpecialLists ==
    { <<Item(Missing, Num(5 * Unit), Num(10 * Unit))>>,
      <<Item(Missing, Num(5 * Unit), Num(10 * Unit)),
        Item(Str(<<" ","X">>), Num(10 * Unit + 5), Num(0))>>,
      <<Item(Str(<<"c","u","l","t","u","r","e"," "," ","x">>),
             Num(10 * Unit), Num(10 * Unit))>>,
      <<Item(Str(<<"c","u","l","t","u","r","e"," "," ","x">>),
             Num(10 * Unit), Num(10 * Unit)),
        Item(Str(<<" ","X">>), Num(10 * Unit + 5), Num(0))>> }

PoItemPool ==
    { Item(Str(<<"x">>), Num(10 * Unit), Num(10 * Unit)),
      Item(Str(<<"C","u","l","t","u","r","e"," ","X"," ">>),
           Str(<<"5">>), Str(<<"2",",","5">>)),
      Item(Str(<<"z">>), Num(Unit), Num(Unit)) }

SeqsUpTo(S, n) == UNION {[1..k -> S] : k \in 0..n}

BaseInvoiceItems == List(<<Item(Str(<<" ","X">>), Num(10 * Unit), Num(10 * Unit))>>)
BasePoItems == List(<<Item(Str(<<"x">>), Num(10 * Unit), Num(10 * Unit))>>)
BasePoNo == Str(<<"A","1">>)
BaseVendor == Str(<<"a","b","c">>)
BaseTotal == Num(100 * Unit)

\* Header fields vary over their pools with one matching item on each side.
HeaderInvoices ==
    { Doc(n, v, t, BaseInvoiceItems) : n \in PoNoPool, v \in VendorPool, t \in TotalPool }
HeaderPos ==
    { Doc(n, v, t, BasePoItems) :
        n \in PoSidePoNoPool, v \in PoSideVendorPool, t \in PoSideTotalPool }

\* Item lists vary with matching header fields; the items field may also
\* be missing or null.
ItemInvoices ==
    { Doc(BasePoNo, BaseVendor, BaseTotal, i) :
        i \in {List(l) : l \in SeqsUpTo(InvoiceItemPool, MaxItems) \cup SpecialLists}
                 \cup {Missing, Null} }
ItemPos ==
    { Doc(BasePoNo, BaseVendor, BaseTotal, List(l)) : l \in SeqsUpTo(PoItemPool, MaxItems) }

Perms(n) == {p \in [1..n -> 1..n] : \A i, j \in 1..n : p[i] = p[j] => i = j}

\* The iteration orders string hashing can give the invoice's key set.
HashOrders(data) == Perms(Len(get_normalized_dict(Get(data.items, List(<<>>)))))

(***************************************************************************)
(* The application.                                                        *)
(***************************************************************************)
VARIABLES
    invoice_data,   \* analysis['invoice_data'] of the uploaded invoice
    po_data,        \* analysis['po_data'] of the uploaded purchase order
    hash_order,     \* set iteration order of this process (its hash seed)
    analysis,       \* "unset" or "set": st.session_state['analysis']
    match_summary,  \* the checklist displayed
    agent_summary,  \* the narrative displayed
    first_checklist, \* history: the first checklist produced for these documents
    last_request    \* history: how the most recent Compare request ended

vars == <<invoice_data, po_data, hash_order, analysis, match_summary,
          agent_summary, first_checklist, last_request>>

Init ==
    /\ \/ invoice_data \in HeaderInvoices /\ po_data \in HeaderPos
       \/ invoice_data \in ItemInvoices /\ po_data \in ItemPos
    /\ hash_order \in HashOrders(invoice_data)
    /\ analysis = "unset"
    /\ match_summary = NotRun
    /\ agent_summary = AgentNotRun
    /\ first_checklist = <<>>
    /\ last_request = "none"

\* The display of a checklist m, then of the narrative.  An exception in
\* the checklist ends the script run.
Show(m) ==
    /\ match_summary' = m
    /\ agent_summary' =
          IF m.outcome = "ok"
          THEN generate_agent_summary(invoice_data, po_data, hash_order)
          ELSE AgentNotRun
    /\ first_checklist' =
          IF m.outcome = "ok" /\ first_checklist = <<>> THEN m.lines ELSE first_checklist

\* The display section of the script.
Display == Show(generate_match_summary(invoice_data, po_data, hash_order))

\* The script run when the session holds no analysis: nothing is displayed.
NoDisplay ==
    /\ match_summary' = NotRun
    /\ agent_summary' = AgentNotRun

\* The Compare button with both files uploaded and both extractions
\* succeeding, followed by the display section of the same script run.
Compare ==
    /\ analysis' = "set"
    /\ last_request' = "ok"
    /\ Display
    /\ UNCHANGED <<invoice_data, po_data, hash_order>>

\* Other files in the two uploaders.
OtherUploads ==
    { <<Doc(BasePoNo, BaseVendor, BaseTotal, BaseInvoiceItems),
        Doc(BasePoNo, BaseVendor, BaseTotal, BasePoItems)>>,
      <<Doc(Str(<<"B","2">>), BaseVendor, BaseTotal, BaseInvoiceItems),
        Doc(BasePoNo, BaseVendor, BaseTotal, BasePoItems)>> }

\* The display section for an analysis stored by this script run.
ShowOther(m, invoice, po, order) ==
    /\ match_summary' = m
    /\ agent_summary' =
          IF m.outcome = "ok" THEN generate_agent_summary(invoice, po, order)
          ELSE AgentNotRun
    /\ first_checklist' = IF m.outcome = "ok" THEN m.lines ELSE <<>>

\* The Compare button after other files were uploaded, both extractions
\* succeeding: the session's analysis is replaced.
CompareOther ==
    \E pair \in OtherUploads : \E order \in HashOrders(pair[1]) :
        /\ <<invoice_data, po_data>> # pair
        /\ invoice_data' = pair[1]
        /\ po_data' = pair[2]
        /\ hash_order' = order
        /\ analysis' = "set"
        /\ last_request' = "ok"
        /\ ShowOther(generate_match_summary(pair[1], pair[2], order),
                     pair[1], pair[2], order)

\* The Compare button with an uploader empty: an error message, the
\* session untouched, then the display section with what the session holds.
CompareMissingFile ==
    /\ last_request' = "missing file"
    /\ IF analysis = "set" THEN Display
       ELSE NoDisplay /\ UNCHANGED first_checklist
    /\ UNCHANGED <<invoice_data, po_data, hash_order, analysis>>

\* The Compare button with both files uploaded when an extraction fails:
\* no text from a file, or no analysis from the extractor (it returns
\* None).  Either way the session's analysis becomes None.
ExtractionStages == {"text", "analysis"}

CompareExtractionFailed ==
    \E stage \in ExtractionStages :
        /\ analysis' = "unset"
        /\ last_request' = "extraction failed"
        /\ NoDisplay
        /\ UNCHANGED <<invoice_data, po_data, hash_order, first_checklist>>

\* Any other interaction reruns the script with the session's analysis.
Rerun ==
    /\ analysis = "set"
    /\ Display
    /\ UNCHANGED <<invoice_data, po_data, hash_order, analysis, last_request>>

\* The server process is started anew: a fresh hash seed, no session.
Restart ==
    /\ hash_order' \in HashOrders(invoice_data)
    /\ analysis' = "unset"
    /\ match_summary' = NotRun
    /\ agent_summary' = AgentNotRun
    /\ last_request' = "none"
    /\ UNCHANGED <<invoice_data, po_data, first_checklist>>

\* One pair of documents, compared and displayed.
Next == Compare \/ Rerun \/ Restart

Spec == Init /\ [][Next]_vars

\* A session of Compare requests, failing ones and ones with other files
\* included, against one purchase order to begin with.
SessionInit ==
    /\ Init
    /\ po_data = Doc(BasePoNo, BaseVendor, BaseTotal, BasePoItems)

SessionNext ==
    \/ Compare
    \/ CompareOther
    \/ CompareMissingFile
    \/ CompareExtractionFailed
    \/ Rerun
    \/ Restart

SessionSpec == SessionInit /\ [][SessionNext]_vars

(***************************************************************************)
(* Properties.  A checklist has been produced when match_summary.outcome   *)
(* is "ok"; its lines are the three field findings, the separator, one     *)
(* line per invoice key, and the status line.                              *)
(***************************************************************************)
Produced == match_summary.outcome = "ok"
Lines == match_summary.lines
StatusKind == Lines[Len(Lines)].kind
ItemLines == SubSeq(Lines, 5, Len(Lines) - 1)
Approved == StatusKind = "Status: APPROVED"
NeedsReview == StatusKind = "Status: NEEDS REVIEW"

MismatchKinds ==
    { "PO Number mismatch", "Vendor mismatch", "Total amount mismatch",
      "Quantity mismatch exceeds", "Item not found on the PO" }

HasMismatchLine == \E i \in 1..Len(Lines) : Lines[i].kind \in MismatchKinds
HasPartialLine == \E i \in 1..Len(Lines) : Lines[i].kind = "Quantity partial shipment"

\* The aggregated maps of the two documents.
InvoiceMap == get_normalized_dict(Get(invoice_data.items, List(<<>>)))
PoMap == get_normalized_dict(Get(po_data.items, List(<<>>)))

\* C1: a checklist ends with status APPROVED iff it holds no mismatch line
\* (PO number, vendor, total, quantity exceeding the PO, item not on the PO),
\* and otherwise with NEEDS REVIEW; a partial-shipment warning is not a
\* mismatch line.
C1_ApprovedIffNoMismatch ==
    Produced =>
        /\ Approved <=> ~HasMismatchLine
        /\ NeedsReview <=> HasMismatchLine

\* A checklist with a partial-shipment warning and status APPROVED.
C1_Witness == Produced /\ HasPartialLine /\ Approved

\* C2: the item lines are exactly one per key of the aggregated invoice, none
\* for a key only the PO has; each is 'not found' when the PO lacks the key,
\* 'exceeds' when invoice quantity > PO quantity + 0.001, 'partial shipment'
\* when invoice quantity < PO quantity - 0.001, 'matches' otherwise; and the
\* reads of the comparison leave both aggregated maps as they were.
C2_ExpectedKind(k) ==
    IF ~HasKey(PoMap, k) THEN "Item not found on the PO"
    ELSE LET iq == Entry(InvoiceMap, k).quantity
             pq == Entry(PoMap, k).quantity
         IN  IF iq - pq > QtyTol THEN "Quantity mismatch exceeds"
             ELSE IF pq - iq > QtyTol THEN "Quantity partial shipment"
             ELSE "Quantity matches"

C2_OneFindingPerInvoiceKey ==
    Produced =>
        /\ Len(ItemLines) = Len(InvoiceMap)
        /\ \A k \in Keys(InvoiceMap) :
              \E i \in 1..Len(ItemLines) :
                 /\ DescKey(ItemLines[i].desc) = k
                 /\ ItemLines[i].kind = C2_ExpectedKind(k)
                 /\ \A j \in 1..Len(ItemLines) :
                       DescKey(ItemLines[j].desc) = k => j = i
        /\ \A i \in 1..Len(ItemLines) : DescKey(ItemLines[i].desc) \in Keys(InvoiceMap)
        /\ match_summary.inv = InvoiceMap
        /\ match_summary.po = PoMap

\* A checklist for two invoice keys, one within tolerance of the PO quantity
\* without being equal to it and one the PO lacks, while the PO has a key the
\* invoice lacks.
C2_Witness ==
    /\ Produced
    /\ Len(ItemLines) = 2
    /\ \E k \in Keys(InvoiceMap) :
          /\ HasKey(PoMap, k)
          /\ Entry(InvoiceMap, k).quantity # Entry(PoMap, k).quantity
          /\ C2_ExpectedKind(k) = "Quantity matches"
    /\ \E k \in Keys(InvoiceMap) : ~HasKey(PoMap, k)
    /\ \E k \in Keys(PoMap) : ~HasKey(InvoiceMap, k)

\* The numeric-parsing rule of the specification: numbers as is, strings with
\* commas read as periods, and 0 for whatever does not parse or is missing.
ParseOrZero(v) ==
    LET r == FloatOfStr(Get(v, Num(0))) IN IF r.ok THEN r.n ELSE 0

\* C3: whatever the two 'total' fields hold, the comparison completes, and the
\* total line is a match iff the totals, parsed with unparsable values as 0,
\* differ by less than 0.01, and otherwise a mismatch with NEEDS REVIEW.
C3_TotalCheckNeverFails ==
    analysis = "set" =>
        /\ Produced
        /\ LET diff == Abs(ParseOrZero(invoice_data.total) - ParseOrZero(po_data.total))
           IN  IF diff < TotalTol
               THEN Lines[3].kind = "Total amount matches"
               ELSE Lines[3].kind = "Total amount mismatch" /\ NeedsReview

\* C4: the narrative approves exactly when the checklist is APPROVED, and
\* otherwise lists one entry per mismatch or warning line of the checklist
\* and nothing else.
C4_DiscrepancyLines ==
    SelectSeq(Lines, LAMBDA l : l.kind \in MismatchKinds \cup {"Quantity partial shipment"})

C4_NarrativeKind(kind) ==
    CASE kind = "PO Number mismatch" -> "PO Number"
      [] kind = "Vendor mismatch" -> "Vendor"
      [] kind = "Total amount mismatch" -> "Total Amount"
      [] kind = "Quantity mismatch exceeds" -> "exceeds"
      [] kind = "Quantity partial shipment" -> "partial shipment"
      [] OTHER -> "not found on the purchase order"

C4_NarrativeRendersChecklist ==
    (Produced /\ agent_summary.outcome = "ok") =>
        /\ agent_summary.approved <=> Approved
        /\ ~agent_summary.approved =>
              /\ Len(agent_summary.details) = Len(C4_DiscrepancyLines)
              /\ \A i \in 1..Len(C4_DiscrepancyLines) :
                    \E j \in 1..Len(agent_summary.details) :
                       /\ agent_summary.details[j].kind
                             = C4_NarrativeKind(C4_DiscrepancyLines[i].kind)
                       /\ agent_summary.details[j].desc = C4_DiscrepancyLines[i].desc

\* C5: the aggregated quantity of a key is the sum of the quantities of the
\* raw items with that key, each parsed on its own by the numeric-parsing
\* rule whatever the item's price is; every raw item with a description has
\* an entry.
Usable(item) == Truthy(GetOrNone(item.description))

RECURSIVE C5_SumQuantity(_, _)
C5_SumQuantity(items, k) ==
    IF items = <<>> THEN 0
    ELSE (IF Usable(Head(items)) /\ DescKey(Head(items).description.s) = k
          THEN ParseOrZero(Head(items).quantity) ELSE 0)
         + C5_SumQuantity(Tail(items), k)

RawItems(data) ==
    LET i == Get(data.items, List(<<>>)) IN IF i.t = "list" THEN i.l ELSE <<>>

C5_QuantitiesOf(d, items) ==
    /\ \A i \in 1..Len(d) : d[i].quantity = C5_SumQuantity(items, d[i].key)
    /\ \A i \in 1..Len(items) :
          Usable(items[i]) => HasKey(d, DescKey(items[i].description.s))

C5_QuantityIsSumOfParsed ==
    Produced =>
        /\ C5_QuantitiesOf(match_summary.inv, RawItems(invoice_data))
        /\ C5_QuantitiesOf(match_summary.po, RawItems(po_data))

\* C6: descriptions that differ only by letter case, surrounding whitespace
\* or "culture " prefixes (with any whitespace after the prefix) fall under
\* one key: they make one aggregated item, and an invoice item is not
\* reported missing from a PO that has such a description.
RECURSIVE C6_Canon(_)
C6_Canon(description) ==
    LET s == Lower(Strip(description))
    IN  IF StartsWith(s, CulturePrefix)
        THEN C6_Canon(SubSeq(s, Len(CulturePrefix) + 1, Len(s)))
        ELSE s

C6_SameItemOneKey ==
    Produced =>
        /\ \A i, j \in 1..Len(match_summary.inv) :
              C6_Canon(match_summary.inv[i].key) = C6_Canon(match_summary.inv[j].key)
                 => i = j
        /\ \A i \in 1..Len(ItemLines) :
              ItemLines[i].kind = "Item not found on the PO" =>
                 \A j \in 1..Len(RawItems(po_data)) :
                    Usable(RawItems(po_data)[j]) =>
                       C6_Canon(RawItems(po_data)[j].description.s)
                          # C6_Canon(ItemLines[i].desc)

\* C7: the PO-number line is a match iff the two numbers, missing read as
\* "N/A" and both trimmed, are equal and not "N/A"; otherwise it is a
\* mismatch and the status is NEEDS REVIEW.
C7_PoNo(v) == IF v.t \in {"missing", "null"} THEN NA ELSE Strip(v.s)

C7_PoNumberCheck ==
    Produced =>
        LET a == C7_PoNo(invoice_data.po_no)
            b == C7_PoNo(po_data.po_no)
        IN  IF a = b /\ a # NA /\ b # NA
            THEN Lines[1].kind = "PO Number matches"
            ELSE Lines[1].kind = "PO Number mismatch" /\ NeedsReview

\* Both documents carry the literal "N/A"; the line is a mismatch.
C7_Witness ==
    /\ Produced
    /\ invoice_data.po_no = Str(NA)
    /\ po_data.po_no = Str(NA)
    /\ Lines[1].kind = "PO Number mismatch"
    /\ NeedsReview

\* C8: the vendor line is a match iff the two vendors, trimmed, lower-cased
\* and with all spaces removed, are both non-empty and one contains the
\* other; otherwise, a missing or empty vendor included, it is a mismatch
\* and the status is NEEDS REVIEW.
C8_Vendor(v) ==
    IF v.t \in {"missing", "null"} THEN <<>>
    ELSE SelectSeq(Lower(Strip(v.s)), LAMBDA c : c # " ")

C8_VendorCheck ==
    Produced =>
        LET a == C8_Vendor(invoice_data.vendor)
            b == C8_Vendor(po_data.vendor)
        IN  IF a # <<>> /\ b # <<>> /\ (IsSubstring(a, b) \/ IsSubstring(b, a))
            THEN Lines[2].kind = "Vendor matches"
            ELSE Lines[2].kind = "Vendor mismatch" /\ NeedsReview

\* The PO vendor, normalized, is a proper part of the invoice vendor, which
\* differs from it in case or spacing; the line is a match.
C8_Witness ==
    /\ Produced
    /\ Lines[2].kind = "Vendor matches"
    /\ invoice_data.vendor.s # po_data.vendor.s
    /\ C8_Vendor(po_data.vendor) # po_data.vendor.s
    /\ ~IsSubstring(C8_Vendor(invoice_data.vendor), C8_Vendor(po_data.vendor))

\* C9: every checklist produced for the same two documents is the same
\* sequence of lines, whichever run or process produced it.
C9_OneChecklistPerInput ==
    (Produced /\ first_checklist # <<>>) => Lines = first_checklist

\* C10: when the invoice quantity of an item is below the PO quantity and
\* the invoice line total (the sum of parsed quantity times parsed unit
\* price over the contributing raw items) exceeds the PO line total by more
\* than 0.01, the checklist carries a line-total mismatch and the status is
\* NEEDS REVIEW.  The product of two ten-thousandths counts is taken on
\* hundredths, which is exact for the prices and quantities of the pools
\* that are not zero.
RECURSIVE C10_LineTotal(_, _)
C10_LineTotal(items, k) ==
    IF items = <<>> THEN 0
    ELSE (IF Usable(Head(items)) /\ DescKey(Head(items).description.s) = k
          THEN (ParseOrZero(Head(items).quantity) \div 100)
                  * (ParseOrZero(Head(items).price) \div 100)
          ELSE 0)
         + C10_LineTotal(Tail(items), k)

C10_LineTotalMismatch ==
    Produced =>
        \A i \in 1..Len(ItemLines) :
           LET k == DescKey(ItemLines[i].desc)
           IN  (/\ ItemLines[i].kind = "Quantity partial shipment"
                /\ C10_LineTotal(RawItems(invoice_data), k)
                      > C10_LineTotal(RawItems(po_data), k) + TotalTol)
               => /\ NeedsReview
                  /\ \E j \in 1..Len(ItemLines) :
                        /\ ItemLines[j].kind = "Line total mismatch"
                        /\ DescKey(ItemLines[j].desc) = k

(***************************************************************************)
(* C11.  The report and the Compare requests of a session.                 *)
(***************************************************************************)
ReportDisplayed == Produced

\* A failed extraction leaves no report displayed.
C11_NoReportAfterFailedExtraction ==
    last_request = "extraction failed" => ~ReportDisplayed /\ analysis = "unset"

\* The report displayed after a successful request is the one of the
\* documents that request stored.
C11_ReportOfStoredDocuments ==
    ReportDisplayed =>
        match_summary = generate_match_summary(invoice_data, po_data, hash_order)

\* C11: a reconciliation report is displayed only if the most recent
\* Compare request completed successfully; a request that failed for any
\* reason (a file missing, no text extracted, no analysis extracted)
\* leaves no report of an earlier comparison displayed.
C11_ReportOnlyOfLatestRequest ==
    ReportDisplayed => last_request = "ok"

====
